---------------------------- MODULE Spec2Model ----------------------------
(***************************************************************************)
(* A model of app.py: the process start-up that loads the classifier, the  *)
(* POST /predict/ handler taken stage by stage, the image preprocessor and *)
(* the advice table.                                                       *)
(*                                                                         *)
(* Numbers.  model.predict returns float32 scores.  A float is a record    *)
(* [k, v]: k = "num" with v the value in units of 1/10000 (5.0 is 50000,   *)
(* 0.9674 is 9674), or k = "nan".  exp of a score is an F32 magnitude      *)
(* [inf, hi, lo]: hi counts units of 1e36 and lo units of 1e-3, so that    *)
(* exp(88.0) = 1.65e38 is hi = 165 and exp(5.0) = 148.413 is lo = 148413;  *)
(* the largest finite float32, 3.4028e38, is hi = 340.  A float32 sum      *)
(* with a term of order 1e36 absorbs every term of order 1e5 (24-bit       *)
(* mantissa), and a sum above the largest finite value is inf.             *)
(***************************************************************************)
EXTENDS Integers, Sequences, FiniteSets, TLC

VARIABLES
    proc,           \* "starting" | "serving" | "aborted": the process
    model,          \* the module-level `model`
    loads,          \* number of load_model calls made so far
    class_names,    \* the module-level label list
    pc,             \* per request: position of its handler coroutine
    req,            \* per request: declared content type and upload
    image_data,     \* per request: local image_data
    img_array,      \* per request: local img_array
    predictions,    \* per request: local predictions
    exc,            \* per request: the exception raised inside the try block
    calls,          \* per request: which of read / preprocess_image / predict were entered
    resp,           \* per request: the response sent
    advice_calls    \* log of direct calls of get_recommendations_and_tips

vars == <<proc, model, loads, class_names, pc, req, image_data, img_array,
          predictions, exc, calls, resp, advice_calls>>

-----------------------------------------------------------------------------
(* Bounds *)

\* Requests whose handlers may be in flight at once.
NumRequests == 2

\* Longest score vector the engine returns (class_names has six entries).
MaxLen == 7

\* Longest log of direct advice look-ups.
MaxAdviceCalls == 2

Requests == 1..NumRequests

-----------------------------------------------------------------------------
(* Program constants *)

img_height == 244

img_width == 244

ClassNames ==
    <<"Bird-drop", "Clean", "Dusty", "Electrical-damage", "Physical-Damage", "Snow-Covered">>

\* Mutant of AllowedTypes: the list also admits text/plain.
AllowedTypesWide == {"image/jpeg", "image/png", "text/plain"}

AllowedTypes == {"image/jpeg", "image/png"}

-----------------------------------------------------------------------------
(* Inputs *)

\* Declared content types a client may send; the check is an exact string
\* match, so "IMAGE/PNG" is not "image/png".
ContentTypes == {"image/jpeg", "image/png", "text/plain", "IMAGE/PNG"}

\* Decodable images.
Images == {"imgA", "imgB"}

\* An upload: "io-error" makes file.read() raise, "not-an-image" are bytes
\* PIL cannot decode, the others are the bytes of a decodable image.
Uploads == {"io-error", "not-an-image"} \cup Images

\* Raw float32 scores, in units of 1/10000: 0.0, 5.0, 88.0, 88.5, 89.0.
ScoreVals == {0, 50000, 880000, 885000, 890000}

Vectors == UNION {[1..n -> ScoreVals] : n \in 1..MaxLen}

\* What model.predict does on one image: raise, or return a score vector.
Raises == [raises |-> TRUE, scores |-> <<>>]

Returns(v) == [raises |-> FALSE, scores |-> v]

\* Labels handed to get_recommendations_and_tips by a direct caller.
Labels ==
    {ClassNames[i] : i \in 1..Len(ClassNames)} \cup
    {"", "clean", "Bird-Drop", "Electrical-Damage", "Physical-damage", "Snow-covered", "Unknown"}

-----------------------------------------------------------------------------
(* float32 arithmetic as numpy performs it *)

Fl(v) == [k |-> "num", v |-> v]

NaN == [k |-> "nan", v |-> 0]

F32Inf == [inf |-> TRUE, hi |-> 0, lo |-> 0]

F32Fin(hi, lo) == [inf |-> FALSE, hi |-> hi, lo |-> lo]

\* np.exp on a float32 score.
NpExp(x) ==
    CASE x.v = 0      -> F32Fin(0, 1000)
      [] x.v = 50000  -> F32Fin(0, 148413)
      [] x.v = 880000 -> F32Fin(165, 0)
      [] x.v = 885000 -> F32Fin(272, 0)
      [] x.v = 890000 -> F32Inf

\* float32 addition; 340 is the largest finite float32, 3.4028e38, in units of 1e36.
F32Add(a, b) ==
    IF a.inf \/ b.inf THEN F32Inf
    ELSE IF a.hi + b.hi > 340 THEN F32Inf
    ELSE IF a.hi + b.hi > 0 THEN F32Fin(a.hi + b.hi, 0)
    ELSE F32Fin(0, a.lo + b.lo)

\* The running float32 sum of e[1..n], left to right; the accumulator is bound
\* once per addition.
RECURSIVE F32SumTo(_, _)
F32SumTo(e, n) ==
    IF n = 0 THEN F32Fin(0, 0)
    ELSE CHOOSE s \in {F32Add(acc, e[n]) : acc \in {F32SumTo(e, n - 1)}} : TRUE

\* np.sum(..., axis=1) over the one row of the batch.
NpSum(e) == F32SumTo(e, Len(e))

\* float32 division of an exponential by the sum of the exponentials.  A
\* quotient below 1/10000 is recorded as 0.
F32Div(a, s) ==
    IF a.inf /\ s.inf THEN NaN
    ELSE IF s.inf THEN Fl(0)
    ELSE IF s.hi = 0 /\ s.lo = 0 THEN NaN
    ELSE IF s.hi > 0 THEN Fl((a.hi * 10000) \div s.hi)
    ELSE Fl((a.lo * 10000) \div s.lo)

\* np.exp(predictions) / np.sum(np.exp(predictions), axis=1)
\*     if predictions.shape[-1] > 1 else predictions
\* (the exponentials e and their sum s are each computed once and bound)
Normalized(e, s) == [i \in 1..Len(e) |-> F32Div(e[i], s)]

Softmax(p) ==
    IF Len(p) > 1
    THEN CHOOSE q \in UNION {{Normalized(e, s) : s \in {NpSum(e)}} :
                                e \in {[i \in 1..Len(p) |-> NpExp(p[i])]}} : TRUE
    ELSE p

HasNaN(p) == \E i \in 1..Len(p) : p[i].k = "nan"

\* np.max: nan if any element is nan.
NpMax(p) ==
    IF HasNaN(p) THEN NaN
    ELSE LET i == CHOOSE i \in 1..Len(p) : \A j \in 1..Len(p) : p[j].v <= p[i].v
         IN p[i]

\* np.argmax(..., axis=1)[0], 0-based: the first nan if there is one, else the
\* first index attaining the maximum.
NpArgmax(p) ==
    IF HasNaN(p)
    THEN (CHOOSE i \in 1..Len(p) : p[i].k = "nan" /\ \A j \in 1..(i - 1) : p[j].k # "nan") - 1
    ELSE (CHOOSE i \in 1..Len(p) :
              /\ \A j \in 1..Len(p) : p[j].v <= p[i].v
              /\ \A j \in 1..(i - 1) : p[j].v < p[i].v) - 1

\* json.dumps(..., allow_nan=False) inside JSONResponse accepts the float.
JsonCompliant(x) == x.k = "num"

-----------------------------------------------------------------------------
(* Exceptions and responses *)

\* is_exception says whether the raised object is an instance of Exception,
\* which is what the clause "except Exception" matches.
NoExc == [type |-> "none", is_exception |-> FALSE, status_code |-> 0, detail |-> ""]

HTTPException(status_code, detail) ==
    [type |-> "HTTPException", is_exception |-> TRUE, status_code |-> status_code,
     detail |-> detail]

\* Any other subclass of Exception; detail is its str(e).
Raised(type, text) ==
    [type |-> type, is_exception |-> TRUE, status_code |-> 0, detail |-> text]

\* An exception that derives from BaseException but not from Exception
\* (asyncio.CancelledError, KeyboardInterrupt, SystemExit).
BaseRaised(type, text) ==
    [type |-> type, is_exception |-> FALSE, status_code |-> 0, detail |-> text]

NoResp ==
    [status |-> 0, detail |-> "", predicted_class |-> "", confidence |-> Fl(0),
     recommendations |-> <<>>, tips |-> <<>>]

\* The response FastAPI sends for an HTTPException leaving the handler.
ErrorResponse(e) ==
    [status |-> e.status_code, detail |-> e.detail, predicted_class |-> "",
     confidence |-> Fl(0), recommendations |-> <<>>, tips |-> <<>>]

\* JSONResponse(content={...}), status 200.
JSONResponse(name, confidence, entry) ==
    [status |-> 200, detail |-> "", predicted_class |-> name, confidence |-> confidence,
     recommendations |-> entry.recommendations, tips |-> entry.tips]

\* Mutant of HandlerExcept: the catch-all puts str(e) in the detail.
HandlerExceptLeaky(e) ==
    IF e.type = "HTTPException" THEN e
    ELSE IF e.is_exception THEN HTTPException(500, e.detail)
    ELSE e

\* The two except clauses of predict, as the exception that leaves the handler:
\* an HTTPException is re-raised as it is, any other instance of Exception
\* becomes HTTPException(500, "Prediction failed"), and an exception that is
\* not an instance of Exception matches neither clause and leaves as it is.
HandlerExcept(e) ==
    IF e.type = "HTTPException" THEN e
    ELSE IF e.is_exception THEN HTTPException(500, "Prediction failed")
    ELSE e

-----------------------------------------------------------------------------
(* Image preprocessor *)

NoArray == [shape |-> <<>>, pixels |-> "unset"]

\* Mutant of preprocess_image: no try/except around the decoding, so PIL's own
\* exception leaves the function.
preprocess_image_unguarded(data) ==
    IF data \in Images
    THEN [ok |-> TRUE, exc |-> NoExc,
          value |-> [shape |-> <<1, img_height, img_width, 3>>, pixels |-> data]]
    ELSE [ok |-> FALSE, exc |-> Raised("UnidentifiedImageError", "cannot identify image file"),
          value |-> NoArray]

\* preprocess_image: decode, RGB, resize, preprocess_input, batch axis; any
\* failure is logged and raised as HTTPException(400).
preprocess_image(data) ==
    IF data \in Images
    THEN [ok |-> TRUE, exc |-> NoExc,
          value |-> [shape |-> <<1, img_height, img_width, 3>>, pixels |-> data]]
    ELSE [ok |-> FALSE, exc |-> HTTPException(400, "Image preprocessing failed"),
          value |-> NoArray]

-----------------------------------------------------------------------------
(* Advice table *)

recommendations_tips ==
    [l \in {"Bird-drop", "Clean", "Dusty", "Electrical-damage", "Physical-Damage", "Snow-Covered"} |->
      CASE l = "Bird-drop" ->
            [recommendations |->
               <<"Regular cleaning of the solar panels is recommended.",
                 "Install bird deterrent systems to reduce the chances of droppings.">>,
             tips |->
               <<"Consider setting up ultrasonic bird repellents to prevent birds from approaching.",
                 "Use automated cleaning systems for frequent bird activity zones.">>]
        [] l = "Clean" ->
            [recommendations |->
               <<"No action required. The panels are in good condition.",
                 "Regular monitoring to ensure continued efficiency.">>,
             tips |->
               <<"Set a schedule for regular visual inspections even if panels look clean.",
                 "Implement smart monitoring systems to track panel performance.">>]
        [] l = "Dusty" ->
            [recommendations |->
               <<"Clean the panels to ensure optimal performance.",
                 "Consider installing protective screens to reduce dust accumulation.">>,
             tips |->
               <<"Use water-efficient cleaning techniques to conserve resources while maintaining cleanliness.",
                 "Install panels at a slight tilt to reduce dust buildup over time.">>]
        [] l = "Electrical-damage" ->
            [recommendations |->
               <<"Contact a certified technician to inspect the electrical system.",
                 "Do not attempt to repair electrical damage without professional assistance.">>,
             tips |->
               <<"Perform regular electrical inspections to catch minor issues early.",
                 "Keep the area around electrical components clean and dry to avoid shorts.">>]
        [] l = "Physical-Damage" ->
            [recommendations |->
               <<"Inspect the panels for cracks or breaks.",
                 "Consider replacing or repairing damaged panels to avoid energy losses.">>,
             tips |->
               <<"Install protective barriers around panels to avoid future physical damage.",
                 "Use high-quality tempered glass panels for increased durability.">>]
        [] l = "Snow-Covered" ->
            [recommendations |->
               <<"Remove snow from the panels to restore energy generation.",
                 "Install snow guards to prevent heavy accumulation.">>,
             tips |->
               <<"Use non-abrasive tools or warm water to clear snow without damaging the panels.",
                 "Install heated cables to melt snow in colder climates.">>]]

DefaultAdvice == [recommendations |-> <<"No recommendations">>, tips |-> <<"No tips">>]

\* Mutant of get_recommendations_and_tips: the table's key for the fourth label
\* is spelt "Electrical-Damage".
get_recommendations_and_tips_misspelt(predicted_class_name) ==
    IF predicted_class_name \in (DOMAIN recommendations_tips) \ {"Electrical-damage"}
    THEN recommendations_tips[predicted_class_name]
    ELSE DefaultAdvice

\* recommendations_tips.get(predicted_class_name, default)
get_recommendations_and_tips(predicted_class_name) ==
    IF predicted_class_name \in DOMAIN recommendations_tips
    THEN recommendations_tips[predicted_class_name]
    ELSE DefaultAdvice

-----------------------------------------------------------------------------
(* The loaded model *)

NoModel == [loaded |-> FALSE, predict |-> [i \in Images |-> Raises]]

Loaded(f) == [loaded |-> TRUE, predict |-> f]

\* Model files that best_model.keras may be: each is a deterministic map from
\* a preprocessed image to what predict does on it.
Engines ==
    { [imgA |-> Returns(<<0, 0, 0, 0, 0, 50000>>),          imgB |-> Raises],
      [imgA |-> Returns(<<880000>>),                        imgB |-> Returns(<<0, 0, 0, 0, 0, 0, 50000>>)],
      [imgA |-> Returns(<<890000, 0, 50000>>),              imgB |-> Returns(<<880000, 0, 0, 0, 0, 0, 885000>>)],
      [imgA |-> Returns(<<50000, 885000, 885000, 0, 0, 0>>), imgB |-> Returns(<<50000, 50000, 0>>)] }

\* Every model file with scores from ScoreVals on imgA.
VectorEngines == {[imgA |-> Returns(v), imgB |-> Raises] : v \in Vectors}

-----------------------------------------------------------------------------
(* Start-up: lines 33-40 *)

\* Mutant of LoadModel: the except block logs the failure and does not raise.
LoadModelLenient ==
    /\ proc = "starting"
    /\ loads' = loads + 1
    /\ \E ok \in BOOLEAN :
         IF ok
         THEN \E f \in Engines : model' = Loaded(f)
         ELSE model' = model
    /\ proc' = "serving"
    /\ UNCHANGED <<class_names, pc, req, image_data, img_array, predictions, exc,
                   calls, resp, advice_calls>>

\* load_model(model_path) at import; a failure raises out of the module, so
\* the application object is never served.
LoadModel ==
    /\ proc = "starting"
    /\ loads' = loads + 1
    /\ \E ok \in BOOLEAN :
         IF ok
         THEN /\ \E f \in Engines : model' = Loaded(f)
              /\ proc' = "serving"
         ELSE /\ model' = model
              /\ proc' = "aborted"
    /\ UNCHANGED <<class_names, pc, req, image_data, img_array, predictions, exc,
                   calls, resp, advice_calls>>

-----------------------------------------------------------------------------
(* POST /predict/ *)

NoReq == [content_type |-> "", upload |-> ""]

\* The transport hands a request to predict().
Arrive(r) ==
    /\ proc = "serving"
    /\ pc[r] = "idle"
    /\ \E c \in ContentTypes, u \in Uploads :
         req' = [req EXCEPT ![r] = [content_type |-> c, upload |-> u]]
    /\ pc' = [pc EXCEPT ![r] = "Received"]
    /\ UNCHANGED <<proc, model, loads, class_names, image_data, img_array, predictions,
                   exc, calls, resp, advice_calls>>

\* Mutant of Fail: the except clause logs the exception and falls off the end
\* of the handler, which answers 200 with an empty body.
FailReturnsNone(r, e) ==
    /\ pc' = [pc EXCEPT ![r] = "Responded"]
    /\ exc' = [exc EXCEPT ![r] = e]
    /\ resp' = [resp EXCEPT ![r] = [NoResp EXCEPT !.status = 200]]

\* An exception e raised inside the try block ends the handler.  When an
\* HTTPException leaves it the framework answers with its status and detail;
\* when another exception leaves it uncaught the handler produces no response.
Fail(r, e) ==
    LET out == HandlerExcept(e)
    IN /\ exc' = [exc EXCEPT ![r] = e]
       /\ IF out.type = "HTTPException"
          THEN /\ pc' = [pc EXCEPT ![r] = "Failed"]
               /\ resp' = [resp EXCEPT ![r] = ErrorResponse(out)]
          ELSE /\ pc' = [pc EXCEPT ![r] = "Uncaught"]
               /\ resp' = resp

\* Lines 131-133: the content-type check.
Validate(r) ==
    /\ pc[r] = "Received"
    /\ IF req[r].content_type \notin AllowedTypes
       THEN Fail(r, HTTPException(400, "Unsupported file type."))
       ELSE /\ pc' = [pc EXCEPT ![r] = "Validated"]
            /\ UNCHANGED <<exc, resp>>
    /\ UNCHANGED <<proc, model, loads, class_names, req, image_data, img_array,
                   predictions, calls, advice_calls>>

\* Line 135, up to the await: file.read() is entered and the handler is
\* suspended, image_data not yet bound; the event loop runs other handlers.
ReadEnter(r) ==
    /\ pc[r] = "Validated"
    /\ calls' = [calls EXCEPT ![r] = @ \cup {"read"}]
    /\ pc' = [pc EXCEPT ![r] = "Reading"]
    /\ UNCHANGED <<proc, model, loads, class_names, req, image_data, img_array,
                   predictions, exc, resp, advice_calls>>

\* Lines 135-136, from the await on: the handler is resumed, and the read
\* either raises or binds image_data.
ReadResume(r) ==
    /\ pc[r] = "Reading"
    /\ IF req[r].upload = "io-error"
       THEN /\ Fail(r, Raised("OSError", "read failed"))
            /\ UNCHANGED image_data
       ELSE /\ image_data' = [image_data EXCEPT ![r] = req[r].upload]
            /\ pc' = [pc EXCEPT ![r] = "ReadDone"]
            /\ UNCHANGED <<exc, resp>>
    /\ UNCHANGED <<proc, model, loads, class_names, req, img_array, predictions,
                   calls, advice_calls>>

\* The handler's task is cancelled while it is suspended at the await of line
\* 135: asyncio.CancelledError is raised there inside the try block.
Cancel(r) ==
    /\ pc[r] = "Reading"
    /\ Fail(r, BaseRaised("CancelledError", ""))
    /\ UNCHANGED <<proc, model, loads, class_names, req, image_data, img_array,
                   predictions, calls, advice_calls>>

\* Line 138: img_array = preprocess_image(image_data).
Preprocess(r) ==
    /\ pc[r] = "ReadDone"
    /\ calls' = [calls EXCEPT ![r] = @ \cup {"preprocess_image"}]
    /\ LET res == preprocess_image(image_data[r])
       IN IF res.ok
          THEN /\ img_array' = [img_array EXCEPT ![r] = res.value]
               /\ pc' = [pc EXCEPT ![r] = "Preprocessed"]
               /\ UNCHANGED <<exc, resp>>
          ELSE /\ Fail(r, res.exc)
               /\ UNCHANGED img_array
    /\ UNCHANGED <<proc, model, loads, class_names, req, image_data, predictions,
                   advice_calls>>

\* Mutant of Infer: img_array is kept in a module-level variable, so predict
\* runs on the array the first request slot preprocessed last.
InferShared(r) ==
    /\ pc[r] = "Preprocessed"
    /\ calls' = [calls EXCEPT ![r] = @ \cup {"predict"}]
    /\ LET shared == IF img_array[1] # NoArray THEN img_array[1] ELSE img_array[r]
           out == model.predict[shared.pixels]
       IN IF out.raises
          THEN /\ Fail(r, Raised("EngineError", "predict failed"))
               /\ UNCHANGED predictions
          ELSE /\ predictions' =
                     [predictions EXCEPT ![r] = [i \in 1..Len(out.scores) |-> Fl(out.scores[i])]]
               /\ pc' = [pc EXCEPT ![r] = "Inferred"]
               /\ UNCHANGED <<exc, resp>>
    /\ UNCHANGED <<proc, model, loads, class_names, req, image_data, img_array,
                   advice_calls>>

\* Line 139: predictions = model.predict(img_array).
Infer(r) ==
    /\ pc[r] = "Preprocessed"
    /\ calls' = [calls EXCEPT ![r] = @ \cup {"predict"}]
    /\ LET out == model.predict[img_array[r].pixels]
       IN IF out.raises
          THEN /\ Fail(r, Raised("EngineError", "predict failed"))
               /\ UNCHANGED predictions
          ELSE /\ predictions' =
                     [predictions EXCEPT ![r] = [i \in 1..Len(out.scores) |-> Fl(out.scores[i])]]
               /\ pc' = [pc EXCEPT ![r] = "Inferred"]
               /\ UNCHANGED <<exc, resp>>
    /\ UNCHANGED <<proc, model, loads, class_names, req, image_data, img_array,
                   advice_calls>>

\* Line 142: softmax when the vector has more than one element.
Normalize(r) ==
    /\ pc[r] = "Inferred"
    /\ predictions' = [predictions EXCEPT ![r] = Softmax(@)]
    /\ pc' = [pc EXCEPT ![r] = "Normalized"]
    /\ UNCHANGED <<proc, model, loads, class_names, req, image_data, img_array,
                   exc, calls, resp, advice_calls>>

\* Lines 144-154: confidence, class selection, advice look-up and the JSON
\* response.  class_names[i] raises IndexError when i is past the list, and
\* JSONResponse raises ValueError on a nan confidence.
Respond(r) ==
    /\ pc[r] = "Normalized"
    /\ LET confidence == NpMax(predictions[r])
           predicted_class == NpArgmax(predictions[r])
       IN IF predicted_class >= Len(class_names)
          THEN Fail(r, Raised("IndexError", "list index out of range"))
          ELSE LET predicted_class_name == class_names[predicted_class + 1]
                   rec_and_tips == get_recommendations_and_tips(predicted_class_name)
               IN IF ~JsonCompliant(confidence)
                  THEN Fail(r, Raised("ValueError",
                                      "Out of range float values are not JSON compliant"))
                  ELSE /\ pc' = [pc EXCEPT ![r] = "Responded"]
                       /\ resp' = [resp EXCEPT ![r] =
                              JSONResponse(predicted_class_name, confidence, rec_and_tips)]
                       /\ UNCHANGED exc
    /\ UNCHANGED <<proc, model, loads, class_names, req, image_data, img_array,
                   predictions, calls, advice_calls>>

\* The handler has ended (response sent, or exception gone up uncaught); its
\* locals are gone.
Close(r) ==
    /\ pc[r] \in {"Responded", "Failed", "Uncaught"}
    /\ pc' = [pc EXCEPT ![r] = "idle"]
    /\ req' = [req EXCEPT ![r] = NoReq]
    /\ image_data' = [image_data EXCEPT ![r] = ""]
    /\ img_array' = [img_array EXCEPT ![r] = NoArray]
    /\ predictions' = [predictions EXCEPT ![r] = <<>>]
    /\ exc' = [exc EXCEPT ![r] = NoExc]
    /\ calls' = [calls EXCEPT ![r] = {}]
    /\ resp' = [resp EXCEPT ![r] = NoResp]
    /\ UNCHANGED <<proc, model, loads, class_names, advice_calls>>

\* One step of request r's handler.
Step(r) ==
    \/ Validate(r)
    \/ ReadEnter(r)
    \/ ReadResume(r)
    \/ Preprocess(r)
    \/ Infer(r)
    \/ Normalize(r)
    \/ Respond(r)

-----------------------------------------------------------------------------
(* A direct call of get_recommendations_and_tips *)

CallAdvice ==
    /\ Len(advice_calls) < MaxAdviceCalls
    /\ \E l \in Labels :
         advice_calls' = Append(advice_calls, [label |-> l, ret |-> get_recommendations_and_tips(l)])
    /\ UNCHANGED <<proc, model, loads, class_names, pc, req, image_data, img_array,
                   predictions, exc, calls, resp>>

-----------------------------------------------------------------------------
(* Specifications *)

Idle ==
    /\ class_names = ClassNames
    /\ pc = [r \in Requests |-> "idle"]
    /\ req = [r \in Requests |-> NoReq]
    /\ image_data = [r \in Requests |-> ""]
    /\ img_array = [r \in Requests |-> NoArray]
    /\ predictions = [r \in Requests |-> <<>>]
    /\ exc = [r \in Requests |-> NoExc]
    /\ calls = [r \in Requests |-> {}]
    /\ resp = [r \in Requests |-> NoResp]
    /\ advice_calls = <<>>

\* The process before load_model has run.
Init ==
    /\ proc = "starting"
    /\ model = NoModel
    /\ loads = 0
    /\ Idle

Next ==
    \/ LoadModel
    \/ \E r \in Requests : Arrive(r)
    \/ \E r \in Requests : Step(r)
    \/ \E r \in Requests : Cancel(r)
    \/ \E r \in Requests : Close(r)

Spec == Init /\ [][Next]_vars

\* The event loop resumes every handler that can take a step; a cancellation
\* comes from outside and is under no fairness.
FairSpec == Spec /\ \A r \in Requests : WF_vars(Step(r))

\* The scoring half of the handler on every score vector: one request whose
\* image has been preprocessed, under each model file of VectorEngines.
ScoreInit ==
    /\ proc = "serving"
    /\ \E f \in VectorEngines : model = Loaded(f)
    /\ loads = 1
    /\ class_names = ClassNames
    /\ pc = [r \in Requests |-> IF r = 1 THEN "Preprocessed" ELSE "idle"]
    /\ req = [r \in Requests |->
                IF r = 1 THEN [content_type |-> "image/jpeg", upload |-> "imgA"] ELSE NoReq]
    /\ image_data = [r \in Requests |-> IF r = 1 THEN "imgA" ELSE ""]
    /\ img_array = [r \in Requests |->
                      IF r = 1 THEN preprocess_image("imgA").value ELSE NoArray]
    /\ predictions = [r \in Requests |-> <<>>]
    /\ exc = [r \in Requests |-> NoExc]
    /\ calls = [r \in Requests |-> IF r = 1 THEN {"read", "preprocess_image"} ELSE {}]
    /\ resp = [r \in Requests |-> NoResp]
    /\ advice_calls = <<>>

ScoreNext == Infer(1) \/ Normalize(1) \/ Respond(1)

ScoreSpec == ScoreInit /\ [][ScoreNext]_vars

\* Direct look-ups in the advice table by a caller of the module.
AdviceInit ==
    /\ proc = "serving"
    /\ \E f \in Engines : model = Loaded(f)
    /\ loads = 1
    /\ Idle

AdviceSpec == AdviceInit /\ [][CallAdvice]_vars

-----------------------------------------------------------------------------
(* Properties *)

\* Request r has been answered.
Terminal(r) == pc[r] \in {"Responded", "Failed"}

\* The handler of request r has ended, with or without a response.
Ended(r) == pc[r] \in {"Responded", "Failed", "Uncaught"}

Accepted(r) == req[r].content_type \in {"image/jpeg", "image/png"}

\* C1: a request whose declared content type is neither "image/jpeg" nor
\* "image/png" fails with 400 "Unsupported file type.", and the upload is never
\* read, preprocess_image never called and model.predict never called for it.
C1_UnsupportedTypeRejectedFirst ==
    \A r \in Requests :
        (pc[r] # "idle" /\ ~Accepted(r)) =>
            /\ pc[r] \in {"Received", "Failed"}
            /\ calls[r] = {}
            /\ image_data[r] = "" /\ img_array[r] = NoArray /\ predictions[r] = <<>>
            /\ pc[r] = "Failed" =>
                   /\ resp[r].status = 400
                   /\ resp[r].detail = "Unsupported file type."

C1_Witness ==
    \E r \in Requests :
        /\ req[r].content_type = "text/plain"
        /\ pc[r] = "Failed"
        /\ resp[r].status = 400

\* C2: a request with an accepted content type whose bytes preprocess_image
\* cannot decode gets 400 "Image preprocessing failed"; model.predict is never
\* invoked for it and the catch-all does not turn the error into a 500.
C2_PreprocessingFailureIs400 ==
    \A r \in Requests :
        (Accepted(r) /\ req[r].upload = "not-an-image") =>
            /\ "predict" \notin calls[r]
            /\ predictions[r] = <<>>
            /\ resp[r].status # 500
            /\ "preprocess_image" \in calls[r] =>
                   /\ pc[r] = "Failed"
                   /\ resp[r].status = 400
                   /\ resp[r].detail = "Image preprocessing failed"

C2_Witness ==
    \E r \in Requests :
        /\ req[r].content_type = "image/png"
        /\ req[r].upload = "not-an-image"
        /\ "preprocess_image" \in calls[r]
        /\ pc[r] = "Failed"

\* C3 (as claimed): every failure in the handler other than the content-type
\* rejection and a preprocessing failure, whatever is raised, gives 500 with
\* the detail "Prediction failed".
C3_AnyFailureIs500 ==
    \A r \in Requests :
        (exc[r] # NoExc /\ exc[r].type # "HTTPException") =>
            /\ pc[r] = "Failed"
            /\ resp[r].status = 500
            /\ resp[r].detail = "Prediction failed"

\* C3: an instance of Exception other than the two HTTPExceptions (from the
\* read, from model.predict, from class selection or from building the
\* response) gives 500 with the fixed detail "Prediction failed", never the
\* exception's text; a response is 500 only then, and the content-type and
\* preprocessing failures keep their 400 and their own detail; an exception
\* that is not an instance of Exception (the cancellation of the handler at
\* the await of the read) leaves the handler and no response is produced.
C3_CatchAllIs500 ==
    \A r \in Requests :
        /\ (exc[r] # NoExc /\ exc[r].is_exception /\ exc[r].type # "HTTPException") =>
               /\ exc[r].type \in {"OSError", "EngineError", "IndexError", "ValueError"}
               /\ pc[r] = "Failed"
               /\ resp[r].status = 500
               /\ resp[r].detail = "Prediction failed"
               /\ resp[r].detail # exc[r].detail
        /\ resp[r].status = 500 =>
               /\ exc[r].is_exception
               /\ exc[r].type \in {"OSError", "EngineError", "IndexError", "ValueError"}
        /\ exc[r].type = "HTTPException" =>
               /\ pc[r] = "Failed"
               /\ resp[r].status = 400
               /\ resp[r].detail = exc[r].detail
               /\ resp[r].detail \in {"Unsupported file type.", "Image preprocessing failed"}
        /\ pc[r] = "Failed" => (exc[r] # NoExc /\ exc[r].is_exception)
        /\ (Accepted(r) /\ req[r].upload = "io-error" /\ Terminal(r)) =>
               resp[r].status = 500
        /\ (exc[r] # NoExc /\ ~exc[r].is_exception) =>
               /\ exc[r].type = "CancelledError"
               /\ pc[r] = "Uncaught"
               /\ resp[r] = NoResp
        /\ pc[r] = "Uncaught" => (exc[r] # NoExc /\ ~exc[r].is_exception)

C3_Witness ==
    \E r1, r2 \in Requests :
        /\ exc[r1].type = "IndexError" /\ resp[r1].status = 500
        /\ exc[r2].type = "CancelledError" /\ pc[r2] = "Uncaught" /\ resp[r2] = NoResp

\* The engine's raw score vector for request r.
RawScores(r) ==
    LET s == model.predict[req[r].upload].scores IN [i \in 1..Len(s) |-> Fl(s[i])]

\* C4 (as claimed): in every 200 response the confidence is the maximum
\* post-normalization score and lies in [0, 1], the length-1 vector included.
C4_ConfidenceInUnitInterval ==
    \A r \in Requests :
        pc[r] = "Responded" =>
            /\ resp[r].confidence = NpMax(predictions[r])
            /\ resp[r].confidence.k = "num"
            /\ resp[r].confidence.v >= 0
            /\ resp[r].confidence.v <= 10000

\* C7 (as claimed): for a score vector of length > 1 the predicted class is
\* class_names[i], i the first index of the maximum raw score, and the
\* confidence is the normalized value at i.
C7_SoftmaxKeepsArgmax ==
    \A r \in Requests :
        (pc[r] = "Responded" /\ Len(RawScores(r)) > 1) =>
            LET i == NpArgmax(RawScores(r))
            IN /\ i < Len(class_names)
               /\ resp[r].predicted_class = class_names[i + 1]
               /\ resp[r].confidence = predictions[r][i + 1]

\* C10 (as claimed): a 200 response names one of the six labels with that
\* label's own advice entry, never the default entry; and a score vector longer
\* than six whose first maximum is at index 6 or higher ends in 500
\* "Prediction failed".
C10_NoFallbackInResponses ==
    \A r \in Requests :
        /\ pc[r] = "Responded" =>
               /\ \E i \in 1..Len(ClassNames) : resp[r].predicted_class = ClassNames[i]
               /\ resp[r].predicted_class \in DOMAIN recommendations_tips
               /\ resp[r].recommendations =
                      recommendations_tips[resp[r].predicted_class].recommendations
               /\ resp[r].tips = recommendations_tips[resp[r].predicted_class].tips
               /\ resp[r].recommendations # DefaultAdvice.recommendations
               /\ resp[r].tips # DefaultAdvice.tips
        /\ (Terminal(r) /\ predictions[r] # <<>> /\ Len(RawScores(r)) > 6
                /\ NpArgmax(RawScores(r)) >= 6) =>
               /\ pc[r] = "Failed"
               /\ resp[r].status = 500
               /\ resp[r].detail = "Prediction failed"

\* The stage of the pipeline a handler position belongs to: the read of the
\* upload happens inside stage Validated.
Stage(p) == IF p \in {"Reading", "ReadDone"} THEN "Validated" ELSE p

Pipeline == <<"Received", "Validated", "Preprocessed", "Inferred", "Normalized", "Responded">>

\* The moves of the claim: along the pipeline, to Failed, and back to idle.
ClaimedMove(s, t) ==
    \/ t = s
    \/ s = "idle" /\ t = "Received"
    \/ \E i \in 1..(Len(Pipeline) - 1) : s = Pipeline[i] /\ t = Pipeline[i + 1]
    \/ s \in {Pipeline[i] : i \in 1..(Len(Pipeline) - 1)} /\ t = "Failed"
    \/ s \in {"Responded", "Failed"} /\ t = "idle"

\* The moves of the claim and the end without a response, out of Validated.
StageMove(s, t) ==
    \/ ClaimedMove(s, t)
    \/ s = "Validated" /\ t = "Uncaught"
    \/ s = "Uncaught" /\ t = "idle"

ClaimedOutcome(r) ==
    /\ resp[r].status \in {0, 200, 400, 500}
    /\ pc[r] = "Responded" <=> resp[r].status = 200
    /\ pc[r] = "Failed" <=> resp[r].status \in {400, 500}

OneOutcome(r) ==
    /\ ClaimedOutcome(r)
    /\ pc[r] = "Uncaught" => (resp[r] = NoResp /\ exc[r].type = "CancelledError")

\* C5 (as claimed): a request passes the six stages in order or leaves one for
\* Failed, and every request that the handler has received ends Responded
\* (200) or Failed (400 or 500), never both and never neither.
C5_EndsRespondedOrFailed ==
    /\ [](\A r \in Requests : ClaimedOutcome(r))
    /\ [][\A r \in Requests : ClaimedMove(Stage(pc[r]), Stage(pc'[r]))]_vars
    /\ \A r \in Requests : (pc[r] # "idle") ~> Terminal(r)

\* C5: a request passes Received, Validated, Preprocessed, Inferred,
\* Normalized, Responded in that order, one stage at a time and never back,
\* or leaves a stage for Failed; it ends Responded exactly when the response is
\* 200 and Failed exactly when it is 400 or 500; a handler cancelled at the
\* await of the read ends in neither, with no response; and every request that
\* the handler has received ends in one of the three.
C5_StagesInOrderAndTerminate ==
    /\ [](\A r \in Requests : OneOutcome(r))
    /\ [][\A r \in Requests : StageMove(Stage(pc[r]), Stage(pc'[r]))]_vars
    /\ \A r \in Requests : (pc[r] # "idle") ~> Ended(r)

C5_Witness ==
    \E r1, r2 \in Requests :
        /\ pc[r1] = "Responded" /\ resp[r1].status = 200
        /\ calls[r1] = {"read", "preprocess_image", "predict"}
        /\ pc[r2] = "Uncaught" /\ calls[r2] = {"read"} /\ resp[r2].status = 0

\* C6: get_recommendations_and_tips is total: for each of the six labels of
\* class_names it returns that label's own entry, with a non-empty
\* recommendations list and a non-empty tips list, never the default entry (the
\* table has a key for every label of class_names, and no two labels share an
\* entry); for any other label it returns the default entry.
C6_AdviceLookupTotal ==
    /\ \A i \in 1..Len(class_names) :
          /\ get_recommendations_and_tips(class_names[i]) # DefaultAdvice
          /\ \A j \in 1..Len(class_names) :
                i # j => get_recommendations_and_tips(class_names[i]) #
                         get_recommendations_and_tips(class_names[j])
    /\ \A k \in 1..Len(advice_calls) :
          LET c == advice_calls[k]
          IN IF \E i \in 1..Len(class_names) : c.label = class_names[i]
             THEN /\ c.label \in DOMAIN recommendations_tips
                  /\ c.ret = recommendations_tips[c.label]
                  /\ Len(c.ret.recommendations) >= 1
                  /\ Len(c.ret.tips) >= 1
                  /\ c.ret # DefaultAdvice
             ELSE c.ret = DefaultAdvice

C6_Witness ==
    /\ Len(advice_calls) = 2
    /\ advice_calls[1].label = "Electrical-damage"
    /\ advice_calls[1].ret # DefaultAdvice
    /\ advice_calls[2].label = "Electrical-Damage"
    /\ advice_calls[2].ret = DefaultAdvice

\* C8: load_model runs once, at start-up, before any request is handled; when
\* it fails no request ever reaches the handler; when it succeeds no later step
\* replaces or changes the loaded model or the label list (the advice table is
\* rebuilt from literals at each call and has no state to change).
C8_ModelLoadedOnceAndFrozen ==
    /\ [](/\ loads <= 1
          /\ proc = "starting" => (loads = 0 /\ ~model.loaded)
          /\ proc = "serving" => (loads = 1 /\ model.loaded)
          /\ proc = "aborted" => (loads = 1 /\ ~model.loaded)
          /\ \A r \in Requests : pc[r] # "idle" => (proc = "serving" /\ model.loaded))
    /\ [][proc # "starting" =>
            /\ proc' = proc
            /\ loads' = loads
            /\ model' = model
            /\ class_names' = class_names]_vars

C8_Witness ==
    /\ proc = "serving"
    /\ loads = 1
    /\ model.loaded
    /\ class_names = ClassNames
    /\ \E r \in Requests : pc[r] = "Responded"

\* What predict() answers to request q under loaded model m when it runs from
\* start to finish with no other request in the process.
AloneResponse(m, q) ==
    IF q.content_type \notin {"image/jpeg", "image/png"}
    THEN ErrorResponse(HTTPException(400, "Unsupported file type."))
    ELSE IF q.upload = "io-error"
    THEN ErrorResponse(HTTPException(500, "Prediction failed"))
    ELSE IF q.upload \notin Images
    THEN ErrorResponse(HTTPException(400, "Image preprocessing failed"))
    ELSE IF m.predict[q.upload].raises
    THEN ErrorResponse(HTTPException(500, "Prediction failed"))
    ELSE LET raw == m.predict[q.upload].scores
             p == Softmax([i \in 1..Len(raw) |-> Fl(raw[i])])
         IN IF NpArgmax(p) >= Len(ClassNames) \/ HasNaN(p)
            THEN ErrorResponse(HTTPException(500, "Prediction failed"))
            ELSE JSONResponse(ClassNames[NpArgmax(p) + 1], NpMax(p),
                              get_recommendations_and_tips(ClassNames[NpArgmax(p) + 1]))

\* The handler state of request r.
Locals(r) ==
    <<pc[r], req[r], image_data[r], img_array[r], predictions[r], exc[r], calls[r], resp[r]>>

\* C9: under a fixed loaded model the response to a request is a function of
\* its own content type and upload: it is what the handler answers when it runs
\* alone, whatever other requests ran before, are interleaved with it or stand
\* suspended in their read, two requests with the same input get the same
\* response, and a step of one request changes neither another request's state
\* nor the shared model.
C9_ResponseDependsOnOwnInputOnly ==
    /\ [](\A r \in Requests : Terminal(r) => resp[r] = AloneResponse(model, req[r]))
    /\ [](\A r \in Requests : ~Terminal(r) => resp[r] = NoResp)
    /\ [](\A r, s \in Requests :
            (Terminal(r) /\ Terminal(s) /\ req[r] = req[s]) => resp[r] = resp[s])
    /\ [][\A r, s \in Requests :
            (r # s /\ Locals(r)' # Locals(r)) =>
                (Locals(s)' = Locals(s) /\ model' = model /\ class_names' = class_names)]_vars

C9_Witness ==
    \E r, s \in Requests :
        /\ r # s
        /\ req[r] = req[s]
        /\ pc[r] = "Responded" /\ pc[s] = "Responded"
        /\ resp[r] = resp[s]


=============================================================================
